---- MODULE Spec2Model ----
(***************************************************************************)
(* IK_ANNE (src/ikpykit/kernel/_ik_anne.py): the Isolation Kernel feature  *)
(* map built from nearest-neighbour (Voronoi) partitions.  One estimator   *)
(* instance is modelled: its constructor parameters, the attributes fit    *)
(* sets on it, the generator object random_state may refer to, and the     *)
(* outcome of the latest call.                                             *)
(*                                                                         *)
(* Arrays hold integer coordinates and distances are compared as squared   *)
(* Euclidean distances (exact arithmetic; sqrt is monotone, so argmin is   *)
(* the same).  numpy's generator is abstracted to a small deterministic    *)
(* state machine: what is kept is that a generator built from an integer   *)
(* seed always starts in the same state, and that drawing advances the     *)
(* state of the generator object drawn from.                               *)
(***************************************************************************)
EXTENDS Integers, Sequences, FiniteSets, TLC

MaxN == 3        \* most rows of an array passed to fit
MaxM == 2        \* most rows of an array passed to transform
MaxCoord == 2    \* coordinates are 0..MaxCoord
MaxT == 2        \* largest n_estimators
MaxSeed == 1     \* integer seeds, and generator states, are 0..MaxSeed

MAX_INT == 2147483647

VARIABLES
    n_estimators, max_samples, random_state,  \* constructor parameters
    attrs,          \* names of the attributes fit has set on the instance
    max_samples_,   \* self.max_samples_
    _seeds,         \* self._seeds
    center_ids,     \* self.center_ids: one sequence of indices per estimator
    unique_ids,     \* self.unique_ids: sorted distinct indices
    center_data,    \* self.center_data: rows of X at unique_ids
    gen,            \* state of the generator object random_state refers to
    X_fit,          \* the array the latest successful fit was given
    prev,           \* what fit left on the instance this one replaced
    ret             \* the call being returned: operation, argument, outcome

vars == <<n_estimators, max_samples, random_state, attrs, max_samples_, _seeds,
          center_ids, unique_ids, center_data, gen, X_fit, prev, ret>>

params == <<n_estimators, max_samples, random_state>>

\* The attributes fit assigns.
fitted_state == <<max_samples_, _seeds, center_ids, unique_ids, center_data,
                  attrs>>

----------------------------------------------------------------------------
(* Arrays *)

Range(s) == {s[i] : i \in DOMAIN s}

Min2(a, b) == IF a <= b THEN a ELSE b

Arr(rs) == [ndim |-> 2, numeric |-> TRUE, rows |-> rs]

Coords == 0..MaxCoord

Point(w, c) == [i \in 1..w |-> c]

SeqsUpTo(S, n) == UNION {[1..k -> S] : k \in 1..n}

NonDecreasing(rs) == \A i \in 1..(Len(rs) - 1) : rs[i][1] <= rs[i + 1][1]

\* Well-formed 2-D numeric arrays: up to n rows of width 1, and one row of
\* width 2.  Rows are listed in nondecreasing order; fit picks centers by index
\* through the generator's permutation, so the centers' rank order still varies.
WellFormed(n) ==
    {Arr(rs) : rs \in {r \in SeqsUpTo({Point(1, c) : c \in Coords}, n) :
                          NonDecreasing(r)}}
    \cup {Arr(<<Point(2, c)>>) : c \in Coords}

\* One array of each malformed shape: 1-D, empty, non-numeric, ragged.
Malformed ==
    { [ndim |-> 1, numeric |-> TRUE, rows |-> <<<<0>>>>],
      [ndim |-> 2, numeric |-> TRUE, rows |-> <<>>],
      [ndim |-> 2, numeric |-> FALSE, rows |-> <<<<0>>>>],
      [ndim |-> 2, numeric |-> TRUE, rows |-> << <<0>>, <<0, 1>> >>] }

FitInputs == WellFormed(MaxN) \cup Malformed

TransformInputs == WellFormed(MaxM) \cup Malformed

NoArray == Arr(<<>>)

\* Faulty variant of check_array: no minimum number of samples or features.
check_array_lenient(X) ==
    /\ X.numeric
    /\ \A i, j \in DOMAIN X.rows : Len(X.rows[i]) = Len(X.rows[j])
    /\ X.ndim = 2

\* sklearn.utils.check_array(X) with its defaults: TRUE when X is accepted.
check_array(X) ==
    /\ X.numeric
    /\ \A i, j \in DOMAIN X.rows : Len(X.rows[i]) = Len(X.rows[j])
    /\ X.ndim = 2
    /\ Len(X.rows) >= 1
    /\ Len(X.rows[1]) >= 1

n_rows(X) == Len(X.rows)

n_cols(rs) == IF rs = <<>> THEN 0 ELSE Len(rs[1])

----------------------------------------------------------------------------
(* The generator *)

Modulus == MaxSeed + 1

\* np.random.RandomState(seed): the state a generator seeded with seed starts in.
RandomState(seed) == seed % Modulus

Advance(g) == (g + 1) % Modulus

\* A draw from a generator in state g: the value in 0..high-1 (high >= 1).
Draw(g, high) == Advance(g) % high

RECURSIVE randint_values(_, _, _)
randint_values(g, high, size) ==
    IF size = 0 THEN <<>>
    ELSE <<Draw(g, high)>> \o randint_values(Advance(g), high, size - 1)

RECURSIVE AdvanceBy(_, _)
AdvanceBy(g, k) == IF k = 0 THEN g ELSE AdvanceBy(Advance(g), k - 1)

Swap(x, i, j) == [x EXCEPT ![i] = x[j], ![j] = x[i]]

\* RandomState.permutation(n): Fisher-Yates over arange(n), i from n-1 down to 1,
\* j drawn from 0..i.  x is 1-indexed here, holding the values 0..n-1.
RECURSIVE shuffle(_, _, _)
shuffle(x, i, g) ==
    IF i < 1 THEN x
    ELSE shuffle(Swap(x, i + 1, Draw(g, i + 1) + 1), i - 1, Advance(g))

permutation(g, n) == shuffle([k \in 1..n |-> k - 1], n - 1, g)

\* Faulty variant of choice: replace=True, each index drawn independently.
choice_with_replacement(seed, n, size) ==
    IF n = 0 THEN <<>>
    ELSE randint_values(RandomState(seed), n, IF size < 0 THEN 0 ELSE size)

\* RandomState(seed).choice(n, size, replace=False), for 0 <= size <= n.
choice(seed, n, size) == SubSeq(permutation(RandomState(seed), n), 1, size)

----------------------------------------------------------------------------
(* fit *)

RECURSIVE SortedSeq(_)
SortedSeq(S) ==
    IF S = {} THEN <<>>
    ELSE LET m == CHOOSE x \in S : \A y \in S : x <= y
         IN <<m>> \o SortedSeq(S \ {m})

\* np.unique(center_ids): the distinct values of the flattened array, ascending.
unique(ids) == SortedSeq(UNION {Range(ids[t]) : t \in DOMAIN ids})

\* X[unique_ids]
take(X, ids) == [k \in DOMAIN ids |-> X.rows[ids[k] + 1]]

select_centers(sds, n, size) ==
    [t \in DOMAIN sds |-> choice(sds[t], n, size)]

NoMatrix == [shape |-> <<0, 0>>, row |-> <<>>, col |-> <<>>, data |-> <<>>]

Call(op, X, exc, why, value) ==
    [op |-> op, X |-> X, exc |-> exc, why |-> why, value |-> value]

\* No call is in progress.
NoCall == Call("", NoArray, "none", "", NoMatrix)

\* Faulty variant of check_random_state: the seed is ignored and the global
\* generator is drawn from.
check_random_state_global == [fresh |-> FALSE, state |-> gen]

\* check_random_state(self.random_state): the generator to draw from.  An
\* integer gives a fresh generator seeded with it; a RandomState instance gives
\* that instance, an object that outlives the call (its state is gen).  None
\* gives numpy's global RandomState instance, which is the same case.
check_random_state ==
    IF random_state.kind = "int"
    THEN [fresh |-> TRUE, state |-> RandomState(random_state.seed)]
    ELSE [fresh |-> FALSE, state |-> gen]

\* Faulty variant of assigned: is_fitted_ is set before the centers are drawn.
assigned_early(line) ==
    CASE line = 93 -> {"max_samples_"}
      [] line = 96 -> {"max_samples_", "_seeds", "is_fitted_"}
      [] OTHER -> {"max_samples_", "_seeds", "center_ids", "unique_ids",
                   "center_data", "is_fitted_"}

\* The attributes fit has assigned when it stops at the given line.
assigned(line) ==
    CASE line = 93 -> {"max_samples_"}
      [] line = 96 -> {"max_samples_", "_seeds"}
      [] OTHER -> {"max_samples_", "_seeds", "center_ids", "unique_ids",
                   "center_data", "is_fitted_"}

fit(X) ==
    IF ~check_array(X)
    THEN \* line 89 raises: nothing is assigned
         /\ ret' = Call("fit", X, "ValueError", "check_array", NoMatrix)
         /\ UNCHANGED <<params, fitted_state, gen, X_fit, prev>>
    ELSE LET n_samples == n_rows(X)
             psi == Min2(max_samples, n_samples)
             rnd == check_random_state
         IN
         /\ max_samples_' = psi
         /\ UNCHANGED <<params, prev>>
         /\ IF n_estimators < 0
            THEN \* line 93 raises: randint with a negative size
                 /\ attrs' = attrs \cup assigned(93)
                 /\ ret' = Call("fit", X, "ValueError", "randint", NoMatrix)
                 /\ UNCHANGED <<_seeds, center_ids, unique_ids, center_data,
                                gen, X_fit>>
            ELSE LET sds == randint_values(rnd.state, MAX_INT, n_estimators)
                     ids == select_centers(sds, n_samples, psi)
                 IN
                 /\ _seeds' = sds
                 /\ gen' = IF rnd.fresh THEN gen
                           ELSE AdvanceBy(rnd.state, n_estimators)
                 /\ IF psi < 0
                    THEN \* line 96 raises: np.empty with a negative dimension
                         /\ attrs' = attrs \cup assigned(96)
                         /\ ret' = Call("fit", X, "ValueError", "np.empty",
                                        NoMatrix)
                         /\ UNCHANGED <<center_ids, unique_ids, center_data,
                                        X_fit>>
                    ELSE /\ center_ids' = ids
                         /\ unique_ids' = unique(ids)
                         /\ center_data' = take(X, unique(ids))
                         /\ attrs' = attrs \cup assigned(107)
                         /\ X_fit' = X
                         /\ ret' = Call("fit", X, "none", "", NoMatrix)

Fit == /\ ret = NoCall
       /\ \E X \in FitInputs : fit(X)

----------------------------------------------------------------------------
(* transform *)

RECURSIVE SumSq(_, _, _)
SumSq(p, q, i) ==
    IF i = 0 THEN 0
    ELSE (p[i] - q[i]) * (p[i] - q[i]) + SumSq(p, q, i - 1)

RECURSIVE SumDiff(_, _, _)
SumDiff(p, q, i) ==
    IF i = 0 THEN 0 ELSE (p[i] - q[i]) + SumDiff(p, q, i - 1)

\* Faulty variant of Dist2: the differences are not squared.
Dist2_signed(p, q) == SumDiff(p, q, Len(p))

\* Squared Euclidean distance of two rows of the same width.
Dist2(p, q) == SumSq(p, q, Len(p))

\* sklearn.metrics.euclidean_distances(A, B): one row per row of A, one column
\* per row of B.
euclidean_distances(A, B) ==
    [i \in DOMAIN A |-> [k \in DOMAIN B |-> Dist2(A[i], B[k])]]

\* id_to_index[id]: the 0-based position of id in unique_ids.
id_to_index(uids, id) == (CHOOSE k \in DOMAIN uids : uids[k] = id) - 1

\* Faulty variant of argmin: the position of the last minimum.
argmin_last(s) ==
    (CHOOSE r \in DOMAIN s :
        /\ \A q \in DOMAIN s : s[r] <= s[q]
        /\ \A q \in DOMAIN s : q > r => s[q] > s[r]) - 1

\* np.argmin of a non-empty row: the 0-based position of the first minimum.
argmin(s) ==
    (CHOOSE r \in DOMAIN s :
        /\ \A q \in DOMAIN s : s[r] <= s[q]
        /\ \A q \in DOMAIN s : q < r => s[q] > s[r]) - 1

\* Lines 139-147 for estimator est_idx: each query row's nearest center's rank.
nn_indices(X_dists, uids, centers) ==
    LET center_indices == [r \in DOMAIN centers |-> id_to_index(uids, centers[r])]
        estimator_dists ==
            [i \in DOMAIN X_dists |->
                [r \in DOMAIN centers |-> X_dists[i][center_indices[r] + 1]]]
    IN [i \in DOMAIN X_dists |-> argmin(estimator_dists[i])]

\* Lines 133-152: the coordinate lists handed to csr_matrix.
embedding(Q, T, psi, ids, uids, cdata) ==
    LET m == Len(Q)
        X_dists == euclidean_distances(Q, cdata)
        nn == [t \in 1..T |-> nn_indices(X_dists, uids, ids[t])]
    IN [shape |-> <<m, T * psi>>,
        row |-> [k \in 1..(m * T) |-> (k - 1) % m],
        col |-> [k \in 1..(m * T) |->
                    nn[((k - 1) \div m) + 1][((k - 1) % m) + 1]
                    + ((k - 1) \div m) * psi],
        data |-> [k \in 1..(m * T) |-> 1]]

\* scipy.sparse.csr_matrix accepts the triples when every index is in the shape.
csr_ok(M) ==
    \A k \in DOMAIN M.col :
        /\ 0 <= M.row[k] /\ M.row[k] < M.shape[1]
        /\ 0 <= M.col[k] /\ M.col[k] < M.shape[2]

\* transform(X) on an instance holding the given attributes: the call's outcome.
transform_of(X, has, T, psi, ids, uids, cdata) ==
    IF "is_fitted_" \notin has
    THEN Call("transform", X, "NotFittedError", "check_is_fitted", NoMatrix)
    ELSE IF ~check_array(X)
    THEN Call("transform", X, "ValueError", "check_array", NoMatrix)
    ELSE IF cdata = <<>>
    THEN \* euclidean_distances validates both arrays: no row in center_data
         Call("transform", X, "ValueError", "no samples", NoMatrix)
    ELSE IF n_cols(X.rows) # n_cols(cdata)
    THEN Call("transform", X, "ValueError", "incompatible dimension", NoMatrix)
    ELSE LET M == embedding(X.rows, T, psi, ids, uids, cdata)
         IN IF csr_ok(M) THEN Call("transform", X, "none", "", M)
            ELSE Call("transform", X, "ValueError", "csr_matrix", NoMatrix)

transform_result(X) ==
    transform_of(X, attrs, n_estimators, max_samples_, center_ids, unique_ids,
                 center_data)

\* Faulty variant of transform: the sample size is clamped again, to the query.
transform_reclamp(X) ==
    /\ ret' = transform_result(X)
    /\ max_samples_' = IF "is_fitted_" \in attrs /\ check_array(X)
                       THEN Min2(max_samples, n_rows(X)) ELSE max_samples_
    /\ UNCHANGED <<params, _seeds, center_ids, unique_ids, center_data, attrs,
                   gen, X_fit, prev>>

transform(X) ==
    /\ ret' = transform_result(X)
    /\ UNCHANGED <<params, fitted_state, gen, X_fit, prev>>

Transform == /\ ret = NoCall
             /\ \E X \in TransformInputs : transform(X)

\* The call returns: the caller has the outcome and may make the next call.
Return == /\ ret # NoCall
          /\ ret' = NoCall
          /\ UNCHANGED <<params, fitted_state, gen, X_fit, prev>>

----------------------------------------------------------------------------
(* Construction *)

NoPrev == [fitted |-> FALSE, X |-> NoArray, center_ids |-> <<>>,
           unique_ids |-> <<>>, center_data |-> <<>>]

\* __init__ stores the three parameters and nothing else.
Init ==
    /\ n_estimators \in -1..MaxT
    /\ max_samples \in -1..MaxN
    /\ random_state \in
         [kind : {"int"}, seed : 0..MaxSeed]
         \cup [kind : {"RandomState"}, seed : {0}]
    /\ gen \in IF random_state.kind = "int" THEN {0} ELSE 0..MaxSeed
    /\ attrs = {}
    /\ max_samples_ = 0
    /\ _seeds = <<>>
    /\ center_ids = <<>>
    /\ unique_ids = <<>>
    /\ center_data = <<>>
    /\ X_fit = NoArray
    /\ prev = NoPrev
    /\ ret = NoCall

Next == Fit \/ Transform \/ Return

Spec == Init /\ [][Next]_vars

\* A second instance is constructed with the same parameters (and, for a
\* RandomState random_state, the same generator object); the caller keeps what
\* fit left on the first one.
New ==
    /\ ret = NoCall
    /\ prev' = [fitted |-> "is_fitted_" \in attrs, X |-> X_fit,
                center_ids |-> center_ids, unique_ids |-> unique_ids,
                center_data |-> center_data]
    /\ attrs' = {}
    /\ max_samples_' = 0
    /\ _seeds' = <<>>
    /\ center_ids' = <<>>
    /\ unique_ids' = <<>>
    /\ center_data' = <<>>
    /\ X_fit' = NoArray
    /\ UNCHANGED <<params, gen, ret>>

\* fit on the same reference data as the instance before (or on malformed data).
FitAgain ==
    /\ ret = NoCall
    /\ \E X \in FitInputs :
          /\ prev.fitted => (X = prev.X \/ X \in Malformed)
          /\ fit(X)

NextRefit == FitAgain \/ New \/ Return

SpecRefit == Init /\ [][NextRefit]_vars

----------------------------------------------------------------------------
(* Properties *)

Fitted == "is_fitted_" \in attrs

Returned(op) == ret.op = op /\ ret.exc = "none"

\* A transform call on a fitted model with a well-formed query of the fitted width.
TransformCase ==
    /\ ret.op = "transform"
    /\ Fitted
    /\ check_array(ret.X)
    /\ n_cols(ret.X.rows) = n_cols(X_fit.rows)

\* Estimator t's columns (t in 1..n_estimators).
Block(t) == ((t - 1) * max_samples_)..(t * max_samples_ - 1)

\* The positions of the returned triples that lie in row i (0-based).
Entries(i) == {k \in DOMAIN ret.value.col : ret.value.row[k] = i}

\* The columns the returned matrix holds in row i within estimator t's block.
ActiveCols(i, t) ==
    {ret.value.col[k] : k \in {e \in Entries(i) : ret.value.col[e] \in Block(t)}}

\* The reference row behind estimator t's center of rank r (r in 1..max_samples_).
CenterRow(t, r) == X_fit.rows[center_ids[t][r] + 1]

\* Rank (0-based) of the first of estimator t's centers nearest to q, measured
\* on the reference rows themselves.
DirectRank(q, t) ==
    (CHOOSE r \in 1..max_samples_ :
        /\ \A o \in 1..max_samples_ : Dist2(q, CenterRow(t, r)) <= Dist2(q, CenterRow(t, o))
        /\ \A o \in 1..(r - 1) : Dist2(q, CenterRow(t, o)) > Dist2(q, CenterRow(t, r))) - 1

RowSparse ==
    /\ ret.exc = "none"
    /\ ret.value.shape = <<n_rows(ret.X), n_estimators * max_samples_>>
    /\ \A i \in 0..(n_rows(ret.X) - 1) :
          /\ Cardinality(Entries(i)) = n_estimators
          /\ \A k \in Entries(i) : ret.value.data[k] = 1
          /\ \A t \in 1..n_estimators :
                Cardinality({k \in Entries(i) : ret.value.col[k] \in Block(t)}) = 1
    /\ \A k1, k2 \in DOMAIN ret.value.col :
          (ret.value.row[k1] = ret.value.row[k2]
           /\ ret.value.col[k1] = ret.value.col[k2]) => k1 = k2

\* C1: on any fitted model, transform of a well-formed query of the fitted
\* width returns a matrix of shape (m, T * max_samples_) whose every row has
\* exactly T entries, each 1, one in each estimator's block, no pair twice.
C1_RowSparsity == TransformCase => RowSparse

\* The same for models fitted with at least one estimator and one center each.
RowSparsity_NonEmptyStore ==
    (TransformCase /\ n_estimators >= 1 /\ max_samples_ >= 1) => RowSparse

\* C2: every column transform emits for query row i and estimator t is
\* t * max_samples_ + r, r the lowest rank among the estimator's centers nearest
\* to the row, whether measured through the deduplicated store or on the
\* reference rows X_fit[center_ids[t]].
C2_NearestCenter ==
    Returned("transform") =>
        \A i \in 1..n_rows(ret.X), t \in 1..n_estimators :
            ActiveCols(i - 1, t) =
                {(t - 1) * max_samples_ + DirectRank(ret.X.rows[i], t)}

\* A query row equidistant from two centers of different coordinates, on a
\* model whose store holds fewer rows than the reference data.
C2_TieThroughStore ==
    /\ Returned("transform")
    /\ Len(unique_ids) < n_rows(X_fit)
    /\ \E i \in 1..n_rows(ret.X), t \in 1..n_estimators :
       \E r1, r2 \in 1..max_samples_ :
          /\ r1 < r2
          /\ CenterRow(t, r1) # CenterRow(t, r2)
          /\ Dist2(ret.X.rows[i], CenterRow(t, r1))
               = Dist2(ret.X.rows[i], CenterRow(t, r2))
          /\ DirectRank(ret.X.rows[i], t) = r1 - 1

\* The fresh instance, fitted on the data the instance before it was fitted
\* on, holds the same centers and the same store.
FreshAgrees ==
    (Fitted /\ prev.fitted /\ prev.X = X_fit) =>
        /\ center_ids = prev.center_ids
        /\ unique_ids = prev.unique_ids
        /\ center_data = prev.center_data

\* A fit that succeeds on the data of the fit before it, on the same instance,
\* leaves the centers and the store as they were.
RefitAgrees ==
    (ret = NoCall /\ Fitted /\ ret'.op = "fit" /\ ret'.exc = "none"
     /\ ret'.X = X_fit) =>
        UNCHANGED <<center_ids, unique_ids, center_data>>

\* C3 as stated: two fits with the same data, configuration and random_state
\* give identical center_ids, unique_ids and center_data, on two fresh instances
\* or on the same one.
C3_SameRandomState == [][FreshAgrees' /\ RefitAgrees]_vars

\* C3, for an integer seed: two fits with the same data, configuration and
\* integer random_state give identical center_ids, unique_ids and center_data,
\* on two fresh instances or on the same one.
C3_IntegerSeed ==
    [][random_state.kind = "int" => (FreshAgrees' /\ RefitAgrees)]_vars

\* A second instance with the same integer seed, fitted on the same data, with
\* two estimators that drew different centers from a real subsample.
C3_SecondFit ==
    /\ Returned("fit")
    /\ random_state.kind = "int"
    /\ prev.fitted /\ prev.X = X_fit
    /\ n_estimators = 2
    /\ 1 <= max_samples_ /\ max_samples_ < n_rows(X_fit)
    /\ center_ids[1] # center_ids[2]

Distinct(s) == \A a, b \in DOMAIN s : s[a] = s[b] => a = b

Clamped(n) ==
    /\ max_samples_ = (IF max_samples <= n THEN max_samples ELSE n)
    /\ Len(center_ids) = n_estimators
    /\ \A t \in 1..n_estimators :
          /\ Len(center_ids[t]) = max_samples_
          /\ Distinct(center_ids[t])
          /\ Range(center_ids[t]) \subseteq 0..(n - 1)
    /\ max_samples > n =>
          /\ max_samples_ = n
          /\ \A t \in 1..n_estimators : Range(center_ids[t]) = 0..(n - 1)

\* C4 as stated: after a successful fit on n points, max_samples_ = min(psi, n),
\* each estimator holds max_samples_ distinct indices in 0..n-1, and if psi > n
\* every estimator holds all n points and unique_ids = {0..n-1}.
C4_Clamping ==
    Returned("fit") =>
        /\ Clamped(n_rows(ret.X))
        /\ max_samples > n_rows(ret.X) =>
              Range(unique_ids) = 0..(n_rows(ret.X) - 1)

\* C4, with at least one estimator: as C4_Clamping, unique_ids = {0..n-1}
\* being claimed when n_estimators >= 1 (with none, unique_ids is empty).
C4_ClampingWithEstimators ==
    Returned("fit") =>
        /\ Clamped(n_rows(ret.X))
        /\ max_samples > n_rows(ret.X) =>
              Range(unique_ids) =
                  (IF n_estimators >= 1 THEN 0..(n_rows(ret.X) - 1) ELSE {})

\* A fit that clamps, with two estimators holding the points in different order.
C4_ClampedFit ==
    /\ Returned("fit")
    /\ max_samples > n_rows(ret.X)
    /\ n_rows(ret.X) >= 2
    /\ n_estimators = 2
    /\ center_ids[1] # center_ids[2]

\* C5 as stated: a query row that is the reference point behind estimator t's
\* center of rank r gets the column t * max_samples_ + r, whatever the data.
C5_SelfSimilarity ==
    Returned("transform") =>
        \A i \in 1..n_rows(ret.X), t \in 1..n_estimators, r \in 1..max_samples_ :
            ret.X.rows[i] = CenterRow(t, r) =>
                ActiveCols(i - 1, t) = {(t - 1) * max_samples_ + (r - 1)}

\* C5, with the tie rule: such a query row gets the column of rank r when no
\* center of lower rank in estimator t has the same coordinates (among centers
\* of identical coordinates the lowest rank wins).
C5_SelfSimilarityFirst ==
    Returned("transform") =>
        \A i \in 1..n_rows(ret.X), t \in 1..n_estimators, r \in 1..max_samples_ :
            (/\ ret.X.rows[i] = CenterRow(t, r)
             /\ \A o \in 1..(r - 1) : CenterRow(t, o) # CenterRow(t, r)) =>
                ActiveCols(i - 1, t) = {(t - 1) * max_samples_ + (r - 1)}

\* A reference point is transformed on an estimator that holds it at a rank
\* above 0, next to a nearer-ranked center of other coordinates.
C5_CenterQueried ==
    /\ Returned("transform")
    /\ \E i \in 1..n_rows(ret.X), t \in 1..n_estimators, r \in 2..max_samples_ :
          /\ ret.X.rows[i] = CenterRow(t, r)
          /\ \A o \in 1..(r - 1) : CenterRow(t, o) # CenterRow(t, r)

\* C6: while no fit call has returned successfully, a transform call raises
\* NotFittedError from check_is_fitted, whatever the query, and returns no matrix.
C6_NotFittedGuard ==
    (ret.op = "transform" /\ X_fit = NoArray) =>
        /\ ret.exc = "NotFittedError"
        /\ ret.why = "check_is_fitted"
        /\ ret.value = NoMatrix

\* transform of a malformed query after a fit call that raised part-way.
C6_AfterFailedFit ==
    /\ ret.op = "transform"
    /\ X_fit = NoArray
    /\ "_seeds" \in attrs
    /\ ret.X \in Malformed

\* C7: on a fitted model, transform of a well-formed query of another width
\* than the reference data raises the dimension-mismatch error at the distance
\* computation and returns no matrix.
C7_DimensionMismatch ==
    (/\ ret.op = "transform"
     /\ Fitted
     /\ check_array(ret.X)
     /\ n_cols(ret.X.rows) # n_cols(X_fit.rows)) =>
        /\ ret.exc = "ValueError"
        /\ ret.why = "incompatible dimension"
        /\ ret.value = NoMatrix

\* The same for models fitted with at least one estimator and one center each.
DimensionMismatch_NonEmptyStore ==
    (/\ ret.op = "transform"
     /\ Fitted
     /\ n_estimators >= 1 /\ max_samples_ >= 1
     /\ check_array(ret.X)
     /\ n_cols(ret.X.rows) # n_cols(X_fit.rows)) =>
        /\ ret.exc = "ValueError"
        /\ ret.why = "incompatible dimension"
        /\ ret.value = NoMatrix

\* The queries put to the model on either side of a failed fit: the malformed
\* ones and every well-formed row on its own (line 147 takes the argmin of each
\* query row separately, so a batch is transformed as its rows are).
Probes == {Q \in TransformInputs : Len(Q.rows) <= 1}

\* C8: fit on malformed input raises the validation error and leaves
\* max_samples_, _seeds, center_ids, unique_ids, center_data and is_fitted_
\* (and the configuration) as they were, so an unfitted model stays unfitted and
\* every query is transformed as before the call.
C8_FitValidationAtomic ==
    [][(ret = NoCall /\ ret'.op = "fit" /\ ret'.X \in Malformed) =>
          /\ ret'.exc = "ValueError"
          /\ ret'.why = "check_array"
          /\ UNCHANGED <<params, fitted_state>>
          /\ \A Q \in Probes :
                transform_of(Q, attrs', n_estimators', max_samples_', center_ids',
                             unique_ids', center_data') = transform_result(Q)
      ]_vars

\* A fitted model whose fit was then called on malformed input.
C8_MalformedRefit ==
    /\ ret.op = "fit"
    /\ ret.X \in Malformed
    /\ Fitted
    /\ n_estimators >= 1 /\ max_samples_ >= 1

C10_SampleSizeInvariant ==
    /\ Fitted => (1 <= max_samples_ /\ max_samples_ <= n_rows(X_fit))
    /\ (ret.op = "fit" /\ check_array(ret.X)) => ret.exc = "none"

====
